---- MODULE Spec2Model ----
(***************************************************************************)
(* Model of programs/fileio.c (zstd): the file handle resolver             *)
(* FIO_getFileHandles, the compression driver FIO_compressFilename, the     *)
(* decompression driver FIO_decompressFilename and its single-frame         *)
(* sub-loop FIO_decompressFrame.                                            *)
(*                                                                          *)
(* Bytes are naturals 0..255.  A 32-bit value is kept as the pair           *)
(* <<high 16 bits, low 16 bits>>.  The buffered codec ZBUFF, the magic     *)
(* numbers and the legacy frame decoder are collaborators whose code is     *)
(* not part of fileio.c; they are modelled by a small stand-in codec that   *)
(* follows the interface of section 6 of the specification.                 *)
(***************************************************************************)
EXTENDS Integers, Sequences, FiniteSets, TLC

(***************************************************************************)
(* Bounds of the model                                                      *)
(***************************************************************************)
\* total number of source bytes held (compressed) in the archive
MaxLen == 2
\* number of frames the archive may hold
MaxFrames == 2

(***************************************************************************)
(* Small input sets                                                         *)
(***************************************************************************)
\* source bytes: 65 is encoded as 190, which read as a block header asks for
\* more than the buffer holds; 255 is encoded as 0, the value of the end marker
Alphabet == {65, 255}
NotificationLevels == {1, 2}
\* answers typed at the overwrite prompt: 'Y', 'y', 'N'
Answers == {89, 121, 78}
NoChar == 0 - 1
NULL == "NULL"

RECURSIVE SeqsUpTo(_)
SeqsUpTo(n) ==
    IF n = 0 THEN {<<>>}
    ELSE LET S == SeqsUpTo(n - 1)
         IN S \cup {Append(s, a) : s \in {t \in S : Len(t) = n - 1}, a \in Alphabet}

Take(s, n) == SubSeq(s, 1, n)
Drop(s, n) == SubSeq(s, n + 1, Len(s))
Min(a, b) == IF a < b THEN a ELSE b

RECURSIVE Flatten(_)
Flatten(ss) == IF ss = <<>> THEN <<>> ELSE Head(ss) \o Flatten(Tail(ss))

(***************************************************************************)
(* Collaborators: magic numbers and the frame dispatcher                    *)
(***************************************************************************)
\* 0xFD2FB524 as <<0xFD2F, 0xB524>>
ZSTD_magicNumber == <<64815, 46372>>
\* 0x1EB52FFD, 0xFD2FB522, 0xFD2FB523
ZSTDv01_magicNumberLE == <<7861, 12285>>
ZSTDv02_magicNumber == <<64815, 46370>>
ZSTDv03_magicNumber == <<64815, 46371>>

\* the four bytes of a 32-bit value in little-endian order
LE32Bytes(m) == <<m[2] % 256, m[2] \div 256, m[1] % 256, m[1] \div 256>>

MEM_readLE32(b) == <<b[4] * 256 + b[3], b[2] * 256 + b[1]>>

ZSTD_isLegacy(magic) ==
    magic \in {ZSTDv01_magicNumberLE, ZSTDv02_magicNumber, ZSTDv03_magicNumber}

(***************************************************************************)
(* Collaborator: the buffered codec.  Frame layout of the stand-in codec:   *)
(* magic (4 bytes), then blocks <<n, e_1 .. e_n>> with n > 0 and            *)
(* e_i = 255 - (source byte), then the end marker <<0>>.                    *)
(***************************************************************************)
ZBUFF_recommendedCInSize == 1
ZBUFF_recommendedCOutSize == 4 + 1 + ZBUFF_recommendedCInSize
ZBUFF_recommendedDInSize == 4
ZBUFF_recommendedDOutSize == ZBUFF_recommendedDInSize

EncodeByte(b) == 255 - b
DecodeByte(e) == 255 - e
EncodeBytes(s) == [i \in 1..Len(s) |-> EncodeByte(s[i])]

ZBUFF_createCCtx == [stage |-> "created", hdr |-> <<>>]
ZBUFF_compressInit(ctx) == [stage |-> "ready", hdr |-> LE32Bytes(ZSTD_magicNumber)]

\* consumes the first `take` bytes of `in`
ZBUFF_compressContinue(ctx, in, take) ==
    [ctx  |-> [stage |-> "ready", hdr |-> <<>>],
     out  |-> ctx.hdr \o <<take>> \o EncodeBytes(Take(in, take)),
     used |-> take]

ZBUFF_compressEnd(ctx) ==
    [ctx |-> [stage |-> "ended", hdr |-> <<>>], out |-> ctx.hdr \o <<0>>, result |-> 0]

\* what one run of the compressor produces for source B
RECURSIVE Blocks(_)
Blocks(B) ==
    IF B = <<>> THEN <<>>
    ELSE LET n == Min(Len(B), ZBUFF_recommendedCInSize)
         IN <<n>> \o EncodeBytes(Take(B, n)) \o Blocks(Drop(B, n))
FrameOf(B) == LE32Bytes(ZSTD_magicNumber) \o Blocks(B) \o <<0>>

\* decoder session
ZBUFF_createDCtx == [stage |-> "none", need |-> 0]
ZBUFF_decompressInit(d) == [stage |-> "magic", need |-> 4]

\* the decoder takes one input byte
DStep(d, byte) ==
    CASE d.stage = "magic" ->
            IF byte # LE32Bytes(ZSTD_magicNumber)[5 - d.need]
            THEN [d |-> d, out |-> <<>>, err |-> TRUE]
            ELSE [d |-> IF d.need = 1 THEN [stage |-> "bhdr", need |-> 1]
                        ELSE [stage |-> "magic", need |-> d.need - 1],
                  out |-> <<>>, err |-> FALSE]
      [] d.stage = "bhdr" ->
            [d |-> IF byte = 0 THEN [stage |-> "end", need |-> 0]
                   ELSE [stage |-> "data", need |-> byte],
             out |-> <<>>, err |-> FALSE]
      [] d.stage = "data" ->
            [d |-> IF d.need = 1 THEN [stage |-> "bhdr", need |-> 1]
                   ELSE [stage |-> "data", need |-> d.need - 1],
             out |-> <<DecodeByte(byte)>>, err |-> FALSE]
      [] OTHER -> [d |-> d, out |-> <<>>, err |-> TRUE]

\* the next requested size: what the current step still needs, and the header
\* of the next block along with the data of a block
BlockHeaderSize == 1
NextSrcSizeHint(d) == IF d.stage = "data" THEN d.need + BlockHeaderSize ELSE d.need

\* decompress-continue: takes at most k bytes of `in`, and none past the end of
\* the frame; returns the session, the bytes produced, the number of bytes
\* consumed, the next requested size, and whether the engine failed
RECURSIVE DecodeLoop(_, _, _, _, _)
DecodeLoop(d, in, k, used, out) ==
    IF k = 0 \/ in = <<>> \/ d.stage = "end"
    THEN [d |-> d, out |-> out, used |-> used, toRead |-> NextSrcSizeHint(d),
          err |-> FALSE]
    ELSE LET s == DStep(d, Head(in))
         IN IF s.err
            THEN [d |-> d, out |-> out, used |-> used, toRead |-> 0, err |-> TRUE]
            ELSE DecodeLoop(s.d, Tail(in), k - 1, used + 1, out \o s.out)

ZBUFF_decompressContinue(d, in, take) == DecodeLoop(d, in, take, 0, <<>>)

\* how many of n buffered bytes the decoder engine may take in one call: all of
\* them, or a single one
DecoderTakes(n) == {Min(1, n), n}

(***************************************************************************)
(* Collaborator: the legacy frame decoder.  A legacy frame of the stand-in  *)
(* is the legacy magic, a length byte n and n raw bytes.                    *)
(***************************************************************************)
LegacyFrameOf(magic, P) == LE32Bytes(magic) \o <<Len(P)>> \o P

\* reads the rest of one legacy frame from `rest` (the source after the magic)
FIO_decompressLegacyFrame(magic, rest) ==
    LET n == IF rest = <<>> \/ ~ZSTD_isLegacy(magic) THEN 0
             ELSE Min(rest[1], Len(rest) - 1)
    IN  [out |-> SubSeq(rest, 2, n + 1), consumed |-> Min(Len(rest), n + 1), size |-> n]

(***************************************************************************)
(* State                                                                    *)
(***************************************************************************)
VARIABLES
    g_overwrite,      \* static U32 g_overwrite
    g_displayLevel,   \* static U32 g_displayLevel
    archive,          \* bytes of the compressed file (compression writes it, decompression reads it)
    frames,           \* the sources whose frames the archive holds, in order
    plain,            \* bytes of the decompressed file
    pc,               \* position of the running driver
    op,               \* "none", "compress" or "decompress"
    res,              \* the call of FIO_getFileHandles: its arguments and its outcome
    finput,           \* FILE* finput : NULL or "open"
    foutput,          \* FILE* foutput: NULL, "store" (a file or stdout) or "null" (the discard sink)
    srcData,          \* content of the opened source
    srcPos,           \* read position in the source
    bufs,             \* sizes of the live buffers the driver has allocated
    inBuff,           \* the valid bytes at the front of inBuff
    outBuff,          \* the bytes the last codec call put in outBuff
    inSize,           \* compression: size_t inSize
    readSize,         \* decompression sub-loop: size_t readSize (pending bytes)
    inStart,          \* decompression sub-loop: size_t inStart
    toRead,           \* size_t toRead
    cctx,             \* ZBUFF_CCtx* ctx
    dctx,             \* ZBUFF_DCtx* dctx
    total,            \* compressedfilesize (compression), filesize (decompression)
    frameSize,        \* U64 frameSize of FIO_decompressFrame
    exitCode,         \* argument of exit(), 0 while the process runs
    exitMsg,          \* message of the EXM_THROW that ended the process
    retval,           \* value returned by the driver
    log,              \* calls the driver has made in this run, in order
    lastIn,           \* the input, consumed count and result of the last codec continue call
    envFault          \* an allocation, an I/O operation or the encoder engine has failed

globals == <<g_overwrite, g_displayLevel>>
disk    == <<archive, frames, plain>>
handles == <<finput, foutput>>
source  == <<srcData, srcPos>>
locals  == <<inBuff, outBuff, inSize, readSize, inStart, toRead, frameSize, lastIn>>
codec   == <<cctx, dctx>>
ending  == <<exitCode, exitMsg, retval>>
vars == <<globals, disk, pc, op, res, handles, source, bufs, locals, codec, total,
          ending, log, lastIn, envFault>>

stdinmark  == "stdin"
stdoutmark == "stdout"
nulmark    == "nul"
SrcNames == {stdinmark, "file"}
DstNames == {stdoutmark, nulmark, "file"}

NoRes == [called |-> FALSE]
NullCCtx == [stage |-> "NULL", hdr |-> <<>>]
NullDCtx == [stage |-> "NULL", need |-> 0]
NoCall == [in |-> <<>>, used |-> 0, toRead |-> 0, err |-> FALSE, fresh |-> TRUE]
Ev(e, n) == [e |-> e, n |-> n]


Init ==
    /\ g_overwrite = 0
    /\ g_displayLevel = 2
    /\ frames = <<>>
    /\ archive = <<>>
    /\ plain = <<>>
    /\ pc = "idle"
    /\ op = "none"
    /\ res = NoRes
    /\ finput = NULL /\ foutput = NULL
    /\ srcData = <<>> /\ srcPos = 0
    /\ bufs = <<>>
    /\ inBuff = <<>> /\ outBuff = <<>>
    /\ inSize = 0 /\ readSize = 0 /\ inStart = 0 /\ toRead = 0 /\ frameSize = 0
    /\ cctx = NullCCtx /\ dctx = NullDCtx
    /\ total = 0
    /\ exitCode = 0 /\ exitMsg = "" /\ retval = 0
    /\ log = <<>>
    /\ lastIn = NoCall
    /\ envFault = FALSE

(***************************************************************************)
(* Local parameters                                                         *)
(***************************************************************************)
FIO_overwriteMode ==
    /\ pc = "idle"
    /\ g_overwrite = 0
    /\ g_overwrite' = 1
    /\ UNCHANGED <<g_displayLevel, disk, pc, op, res, handles, source, bufs, locals,
                   codec, total, ending, log, envFault>>

FIO_setNotificationLevel ==
    /\ pc = "idle"
    /\ \E level \in NotificationLevels \ {g_displayLevel} : g_displayLevel' = level
    /\ UNCHANGED <<g_overwrite, disk, pc, op, res, handles, source, bufs, locals,
                   codec, total, ending, log, envFault>>

(***************************************************************************)
(* Exceptions: exit codes and messages of the EXM_THROW sites               *)
(***************************************************************************)
ErrAborted     == 11
ErrOpenSrc     == 12
\* a destination that cannot be opened reported with the code of the source
ErrOpenDst_AsSrc == ErrOpenSrc
ErrOpenDst     == 13
ErrCAlloc      == 21
ErrCInit       == 22
ErrCompress    == 23
ErrNotConsumed == 24
ErrWriteBlock  == 25
ErrFrameEnd    == 26
ErrWriteEnd    == 27
ErrCClose      == 28
ErrHeader      == 31
ErrDAlloc      == 33
ErrTooLarge    == 34
ErrRead        == 35
ErrDecoding    == 36
ErrDWrite      == 37
ErrDClose      == 38

MsgAborted     == "Operation aborted : %s already exists"
MsgOpenSrc     == "Pb opening src : %s"
MsgOpenDst     == "Pb opening dst : %s"
MsgAlloc       == "Allocation error : not enough memory"
MsgCInit       == "Error initializing compression"
MsgCompress    == "Compression error : %s "
MsgNotConsumed == "Compression error : input block not fully consumed"
MsgWriteBlock  == "Write error : cannot write compressed block into %s"
MsgFrameEnd    == "Compression error : cannot create frame end"
MsgWriteEnd    == "Write error : cannot write frame end into %s"
MsgClose       == "Write error : cannot properly close %s"
MsgHeader      == "Read error : cannot read header"
MsgTooLarge    == "too large block"
MsgRead        == "Read error"
MsgDecoding    == "Decoding error : %s"
MsgDWrite      == "Write error : unable to write data block to destination file"

\* variant: the error is reported and the driver goes on to its return
EXM_THROW_Resume(error, msg) ==
    /\ exitCode' = error
    /\ exitMsg' = msg
    /\ pc' = "returned"
    /\ UNCHANGED retval

\* exit(error): the process ends, nothing runs after it
EXM_THROW(error, msg) ==
    /\ exitCode' = error
    /\ exitMsg' = msg
    /\ pc' = "exit"
    /\ UNCHANGED retval

(***************************************************************************)
(* FIO_getFileHandles                                                       *)
(***************************************************************************)
\* variant: the prompt is skipped only below level 1
OverwritePolicy_PromptAtLevel1(ch) ==
    LET ask      == g_overwrite = 0
        silent   == ask /\ g_displayLevel < 1
        prompted == ask /\ ~silent
        refused  == prompted /\ ch # 89 /\ ch # 121
    IN  [prompted |-> prompted, aborted |-> silent \/ refused]

\* lines 201-214: the destination exists (fopen "rb" succeeded); is the user
\* asked, and is the operation aborted
OverwritePolicy(ch) ==
    LET ask      == g_overwrite = 0
        silent   == ask /\ g_displayLevel <= 1
        prompted == ask /\ ~silent
        refused  == prompted /\ ch # 89 /\ ch # 121
    IN  [prompted |-> prompted, aborted |-> silent \/ refused]

\* variant: the destination handle is tested before the source handle
FirstFailure_DstFirst(aborted, noSrc, noDst) ==
    IF aborted THEN ErrAborted
    ELSE IF noDst THEN ErrOpenDst
    ELSE IF noSrc THEN ErrOpenSrc
    ELSE 0

\* lines 208, 212, 218, 219: the throws of the resolver in the order the code
\* reaches them; 0 when none is reached
FirstFailure(aborted, noSrc, noDst) ==
    IF aborted THEN ErrAborted
    ELSE IF noSrc THEN ErrOpenSrc
    ELSE IF noDst THEN ErrOpenDst
    ELSE 0

\* lines 177-220
\* srcOk: fopen(input_filename, "rb") succeeds; dstExists: fopen(output_filename,
\* "rb") succeeds; dstOk: fopen(output_filename, "wb") succeeds; ch: the
\* character getchar() returns
FIO_getFileHandles(input_filename, output_filename, srcOk, dstExists, dstOk, ch) ==
    LET pfinput  == IF input_filename = stdinmark \/ srcOk THEN "open" ELSE NULL
        toStdout == output_filename = stdoutmark
        existing == ~toStdout /\ output_filename # nulmark /\ dstExists
        prompted == existing /\ OverwritePolicy(ch).prompted
        aborted  == existing /\ OverwritePolicy(ch).aborted
        openedW  == ~toStdout /\ ~aborted /\ dstOk
        pfoutput == IF toStdout THEN "store"
                    ELSE IF ~openedW THEN NULL
                    ELSE IF output_filename = nulmark THEN "null" ELSE "store"
        code     == FirstFailure(aborted, pfinput = NULL, pfoutput = NULL)
    IN  [called    |-> TRUE,
         input     |-> input_filename,
         output    |-> output_filename,
         srcOk     |-> srcOk,
         dstExists |-> dstExists,
         dstOk     |-> dstOk,
         ch        |-> IF prompted THEN ch ELSE NoChar,
         prompted  |-> prompted,
         checked   |-> ~toStdout /\ output_filename # nulmark,
         truncated |-> openedW /\ output_filename # nulmark,
         finput    |-> pfinput,
         foutput   |-> pfoutput,
         code      |-> code,
         msg       |-> IF code = ErrAborted THEN MsgAborted
                       ELSE IF code = ErrOpenSrc THEN MsgOpenSrc
                       ELSE IF code = ErrOpenDst THEN MsgOpenDst
                       ELSE ""]

\* the environments the resolver is run in; arguments a run does not look at
\* are fixed so that equal runs are not told apart
ResolverRuns ==
    {r \in [input : SrcNames, output : DstNames, srcOk : BOOLEAN,
            dstExists : BOOLEAN, dstOk : BOOLEAN, ch : Answers \cup {NoChar}] :
        /\ (r.input = stdinmark => r.srcOk)
        /\ (r.output = stdoutmark => r.dstOk /\ ~r.dstExists)
        /\ (r.output = nulmark => r.dstExists)
        /\ (r.ch # NoChar) =
              (r.output = "file" /\ r.dstExists /\ g_overwrite = 0 /\ g_displayLevel > 1)}

(***************************************************************************)
(* Files                                                                    *)
(***************************************************************************)
\* fwrite of the first k bytes of `bytes` to foutput
FWrite(bytes, k) ==
    /\ archive' = IF op = "compress" /\ foutput = "store"
                  THEN archive \o Take(bytes, k) ELSE archive
    /\ plain' = IF op = "decompress" /\ foutput = "store"
                THEN plain \o Take(bytes, k) ELSE plain

\* the sources the next compression may be given
CompressSources(fs) ==
    {B \in SeqsUpTo(MaxLen) : Len(Flatten(fs)) + Len(B) <= MaxLen}

(***************************************************************************)
(* FIO_compressFilename                                                     *)
(***************************************************************************)
CallCompress ==
    /\ pc \in {"idle", "returned"}
    /\ op # "decompress"
    /\ Len(frames) < MaxFrames
    /\ pc' = "c_alloc"
    /\ op' = "compress"
    /\ total' = 0
    /\ retval' = 0
    /\ log' = <<>>
    /\ res' = NoRes
    /\ finput' = NULL /\ foutput' = NULL
    /\ srcData' = <<>> /\ srcPos' = 0
    /\ bufs' = <<>>
    /\ inBuff' = <<>> /\ outBuff' = <<>>
    /\ inSize' = 0
    /\ cctx' = NullCCtx
    /\ lastIn' = NoCall
    /\ UNCHANGED <<globals, disk, readSize, inStart, toRead, frameSize, dctx,
                   exitCode, exitMsg, envFault>>

\* malloc(sizes[i]) for each i, in order: the sizes of the buffers that were
\* obtained; oks[i] tells whether the i-th call returned a buffer
RECURSIVE Allocated(_, _)
Allocated(sizes, oks) ==
    IF sizes = <<>> THEN <<>>
    ELSE (IF Head(oks) THEN <<Head(sizes)>> ELSE <<>>)
         \o Allocated(Tail(sizes), Tail(oks))

\* variant: a second output buffer is allocated
CompressBuffers_PerChunk ==
    <<ZBUFF_recommendedCInSize, ZBUFF_recommendedCOutSize, ZBUFF_recommendedCOutSize>>

\* lines 244-245, 253-254: the buffers the compression driver allocates
CompressBuffers == <<ZBUFF_recommendedCInSize, ZBUFF_recommendedCOutSize>>

\* lines 252-255: the session and the buffers are all requested, then tested
\* together; what was obtained is still held when the test throws
CompressAlloc ==
    /\ pc = "c_alloc"
    /\ \E ctxOk \in BOOLEAN, oks \in [1..Len(CompressBuffers) -> BOOLEAN] :
        LET got == Allocated(CompressBuffers, oks)
        IN  /\ cctx' = IF ctxOk THEN ZBUFF_createCCtx ELSE NullCCtx
            /\ bufs' = got
            /\ log' = log \o [i \in 1..Len(got) |-> Ev("alloc", got[i])]
            /\ IF ctxOk /\ \A i \in DOMAIN oks : oks[i]
               THEN /\ pc' = "c_handles"
                    /\ UNCHANGED <<ending, envFault>>
               ELSE /\ EXM_THROW(ErrCAlloc, MsgAlloc)
                    /\ envFault' = TRUE
    /\ UNCHANGED <<globals, disk, op, res, handles, source, locals, dctx, total>>

\* line 258
CompressGetFileHandles ==
    /\ pc = "c_handles"
    /\ \E r \in ResolverRuns :
        LET h == FIO_getFileHandles(r.input, r.output, r.srcOk, r.dstExists, r.dstOk, r.ch)
            fs == IF h.truncated THEN <<>> ELSE frames
        IN  /\ res' = h
            /\ finput' = h.finput
            /\ foutput' = h.foutput
            /\ frames' = fs
            /\ archive' = IF h.truncated THEN <<>> ELSE archive
            /\ log' = IF h.prompted THEN Append(log, Ev("prompt", 0)) ELSE log
            /\ IF h.code # 0
               THEN /\ EXM_THROW(h.code, h.msg)
                    /\ envFault' = TRUE
               ELSE /\ pc' = "c_init"
                    /\ UNCHANGED <<ending, envFault>>
    /\ UNCHANGED <<globals, plain, op, source, bufs, locals, codec, total>>

\* lines 259-262; the content of the opened source is drawn here, where the
\* driver first looks at the source (FIO_getFileSize)
CompressInit ==
    /\ pc = "c_init"
    /\ res' = NoRes
    /\ srcData' \in CompressSources(frames)
    /\ srcPos' = 0
    /\ \E ok \in BOOLEAN :
        IF ok
        THEN /\ cctx' = ZBUFF_compressInit(cctx)
             /\ pc' = "c_read"
             /\ UNCHANGED <<ending, envFault>>
        ELSE /\ EXM_THROW(ErrCInit, MsgCInit)
             /\ envFault' = TRUE
             /\ UNCHANGED cctx
    /\ UNCHANGED <<globals, disk, op, handles, bufs, locals, dctx, total, log>>

\* fread(buf, 1, n, finput): the next bytes of the source, at most n
FRead(n) == SubSeq(srcData, srcPos + 1, Min(Len(srcData), srcPos + n))

\* lines 270-272
CompressRead ==
    /\ pc = "c_read"
    /\ LET got == FRead(ZBUFF_recommendedCInSize)
       IN  /\ inBuff' = got
           /\ inSize' = Len(got)
           /\ srcPos' = srcPos + Len(got)
           /\ log' = Append(log, Ev("read", Len(got)))
           /\ pc' = IF Len(got) = 0 THEN "c_end" ELSE "c_cont"
    /\ UNCHANGED <<globals, disk, op, res, handles, srcData, bufs, outBuff, readSize,
                   inStart, toRead, frameSize, lastIn, codec, total, ending, envFault>>

\* variant: a chunk that was not consumed whole is written like any other
ContinueOutcome_Ignore(isError, fed, used) ==
    IF isError THEN "error" ELSE "write"

\* lines 280-284: what follows a compress-continue call
ContinueOutcome(isError, fed, used) ==
    IF isError THEN "error"
    ELSE IF fed # used THEN "notConsumed"
    ELSE "write"

\* lines 277-284; the engine fails or not, and takes the whole chunk or leaves
\* its last byte
CompressContinue ==
    /\ pc = "c_cont"
    /\ \E isError \in BOOLEAN, take \in {inSize - 1, inSize} :
        LET r == ZBUFF_compressContinue(cctx, inBuff, take)
            outcome == ContinueOutcome(isError, inSize, r.used)
        IN  /\ log' = Append(log, Ev("cont", inSize))
            /\ lastIn' = [in |-> inBuff, used |-> r.used, toRead |-> 0, err |-> isError,
                          fresh |-> FALSE]
            /\ cctx' = r.ctx
            /\ outBuff' = r.out
            /\ CASE outcome = "error" ->
                        EXM_THROW(ErrCompress, MsgCompress) /\ envFault' = TRUE
                 [] outcome = "notConsumed" ->
                        EXM_THROW(ErrNotConsumed, MsgNotConsumed) /\ envFault' = TRUE
                 [] OTHER -> pc' = "c_write" /\ UNCHANGED <<ending, envFault>>
    /\ UNCHANGED <<globals, disk, op, res, handles, source, bufs, inBuff, inSize,
                   readSize, inStart, toRead, frameSize, dctx, total>>

\* variant: the counter is assigned the size instead of being increased by it
AddSize_Assign(counter, n) == n

\* lines 289, 303, 347, 396, 400: counter += n
AddSize(counter, n) == counter + n

\* the numbers of bytes an fwrite of n bytes may report
WriteResults(n) == 0..n

\* lines 287-289 and 301-303
CompressWriteAt(here, next, error, msg) ==
    /\ pc = here
    /\ \E sizeCheck \in WriteResults(Len(outBuff)) :
        /\ FWrite(outBuff, sizeCheck)
        /\ log' = Append(log, Ev("write", sizeCheck))
        /\ IF sizeCheck # Len(outBuff)
           THEN /\ EXM_THROW(error, msg)
                /\ envFault' = TRUE
                /\ UNCHANGED total
           ELSE /\ total' = AddSize(total, Len(outBuff))
                /\ pc' = next
                /\ UNCHANGED <<ending, envFault>>
    /\ UNCHANGED <<globals, frames, op, res, handles, source, bufs, locals, codec>>

CompressWrite == CompressWriteAt("c_write", "c_read", ErrWriteBlock, MsgWriteBlock)

\* variant: a compress-end that leaves data is not fatal
EndOutcome_Drain(result) == "write"

\* line 299: what follows a compress-end that returned `result`
EndOutcome(result) == IF result # 0 THEN "throw" ELSE "write"

\* lines 297-299; a result other than 0 says the engine has data left to flush
CompressEnd ==
    /\ pc = "c_end"
    /\ \E left \in {0, 1} :
        LET r == ZBUFF_compressEnd(cctx)
        IN  /\ log' = Append(log, Ev("end", r.result + left))
            /\ cctx' = r.ctx
            /\ outBuff' = r.out
            /\ IF EndOutcome(r.result + left) = "throw"
               THEN /\ EXM_THROW(ErrFrameEnd, MsgFrameEnd)
                    /\ envFault' = TRUE
               ELSE /\ pc' = "c_endwrite"
                    /\ UNCHANGED <<ending, envFault>>
    /\ UNCHANGED <<globals, disk, op, res, handles, source, bufs, inBuff, inSize,
                   readSize, inStart, toRead, frameSize, lastIn, dctx, total>>

CompressEndWrite == CompressWriteAt("c_endwrite", "c_clean", ErrWriteEnd, MsgWriteEnd)

\* what fclose returns when it fails
EOF == 0 - 1

\* variant: the destination is closed before the buffers and the session are
\* released and the source is closed
CleanCalls_DstFirst(buffers, closeResult) ==
    <<Ev("closeDst", closeResult)>>
        \o [i \in 1..Len(buffers) |-> Ev("free", buffers[i])]
        \o <<Ev("freectx", 0), Ev("closeSrc", 0)>>

\* lines 312-316 and 407-411: free(inBuff), free(outBuff), the release of the
\* session, fclose(finput), fclose(foutput), which returns closeResult
CleanCalls(buffers, closeResult) ==
    [i \in 1..Len(buffers) |-> Ev("free", buffers[i])]
        \o <<Ev("freectx", 0), Ev("closeSrc", 0), Ev("closeDst", closeResult)>>

\* lines 312-318
CompressClean ==
    /\ pc = "c_clean"
    /\ bufs' = <<>>
    /\ cctx' = NullCCtx
    /\ \E closed \in BOOLEAN :
        /\ log' = log \o CleanCalls(bufs, IF closed THEN 0 ELSE EOF)
        /\ IF closed
           THEN /\ pc' = "returned"
                /\ retval' = total
                /\ frames' = IF foutput = "store" THEN Append(frames, srcData) ELSE frames
                /\ UNCHANGED <<exitCode, exitMsg, envFault>>
           ELSE /\ EXM_THROW(ErrCClose, MsgClose)
                /\ envFault' = TRUE
                /\ UNCHANGED frames
    /\ UNCHANGED <<globals, archive, plain, op, res, handles, source, locals, dctx, total>>

FIO_compressFilename ==
    \/ CompressAlloc
    \/ CompressGetFileHandles
    \/ CompressInit
    \/ CompressRead
    \/ CompressContinue
    \/ CompressWrite
    \/ CompressEnd
    \/ CompressEndWrite
    \/ CompressClean

(***************************************************************************)
(* FIO_decompressFilename and FIO_decompressFrame                           *)
(***************************************************************************)
\* what the source of a decompression holds before and after the archive:
\* nothing, a legacy frame before or after it, and after it a cut magic
\* number, an unknown magic number, a frame cut after its magic number, or a
\* frame that announces a block larger than the input buffer
OversizedBlock == ZBUFF_recommendedDInSize + 1
UnknownMagic == <<1, 2, 3, 4>>
Envelopes ==
    {<<<<>>, <<>>>>,
     <<LegacyFrameOf(ZSTDv01_magicNumberLE, <<66>>), <<>>>>,
     <<<<>>, LegacyFrameOf(ZSTDv03_magicNumber, <<65>>)>>,
     <<<<>>, UnknownMagic>>,
     <<<<>>, LE32Bytes(ZSTD_magicNumber)>>,
     <<<<>>, LE32Bytes(ZSTD_magicNumber) \o <<OversizedBlock>>>>}
    \cup {<<<<>>, Take(LE32Bytes(ZSTD_magicNumber), n)>> : n \in 1..3}
DecompressSources == {e[1] \o archive \o e[2] : e \in Envelopes}

CallDecompress ==
    /\ pc \in {"idle", "returned"}
    /\ op # "decompress"
    /\ pc' = "d_create"
    /\ op' = "decompress"
    /\ total' = 0
    /\ retval' = 0
    /\ log' = <<>>
    /\ res' = NoRes
    /\ finput' = NULL /\ foutput' = NULL
    /\ srcData' = <<>> /\ srcPos' = 0
    /\ bufs' = <<>>
    /\ inBuff' = <<>> /\ outBuff' = <<>>
    /\ readSize' = 0 /\ inStart' = 0 /\ toRead' = 0 /\ frameSize' = 0
    /\ lastIn' = NoCall
    /\ dctx' = NullDCtx
    /\ UNCHANGED <<globals, disk, inSize, cctx, exitCode, exitMsg, envFault>>

\* line 375: the session is created and not tested
DecompressCreate ==
    /\ pc = "d_create"
    /\ \E ok \in BOOLEAN :
        /\ dctx' = IF ok THEN ZBUFF_createDCtx ELSE NullDCtx
        /\ envFault' = ~ok
    /\ pc' = "d_handles"
    /\ UNCHANGED <<globals, disk, op, res, handles, source, bufs, locals, cctx, total,
                   ending, log>>

\* line 376
DecompressGetFileHandles ==
    /\ pc = "d_handles"
    /\ \E r \in ResolverRuns :
        LET h == FIO_getFileHandles(r.input, r.output, r.srcOk, r.dstExists, r.dstOk, r.ch)
        IN  /\ res' = h
            /\ finput' = h.finput
            /\ foutput' = h.foutput
            /\ plain' = IF h.truncated THEN <<>> ELSE plain
            /\ log' = IF h.prompted THEN Append(log, Ev("prompt", 0)) ELSE log
            /\ IF h.code # 0
               THEN /\ EXM_THROW(h.code, h.msg)
                    /\ envFault' = TRUE
               ELSE /\ pc' = "d_alloc"
                    /\ UNCHANGED <<ending, envFault>>
    /\ UNCHANGED <<globals, archive, frames, op, source, bufs, locals, codec, total>>

\* lines 367, 369, 379-380: the buffers the decompression driver allocates
DecompressBuffers == <<ZBUFF_recommendedDInSize, ZBUFF_recommendedDOutSize>>

\* lines 379-381: both buffers are requested, then tested together; the
\* content of the opened source is drawn here, before the
\* driver first reads it
DecompressAlloc ==
    /\ pc = "d_alloc"
    /\ res' = NoRes
    /\ srcData' \in DecompressSources
    /\ srcPos' = 0
    /\ \E oks \in [1..Len(DecompressBuffers) -> BOOLEAN] :
        LET got == Allocated(DecompressBuffers, oks)
        IN  /\ bufs' = got
            /\ log' = log \o [i \in 1..Len(got) |-> Ev("alloc", got[i])]
            /\ IF \A i \in DOMAIN oks : oks[i]
               THEN /\ pc' = "d_magic"
                    /\ UNCHANGED <<ending, envFault>>
               ELSE /\ EXM_THROW(ErrDAlloc, MsgAlloc)
                    /\ envFault' = TRUE
    /\ UNCHANGED <<globals, disk, op, handles, locals, codec, total>>

\* the size of the magic number read at a frame boundary
MagicSize == 4

\* variant: a short magic number read ends the stream
MagicReadOutcome_ShortIsEnd(sizeCheck, wanted) ==
    IF sizeCheck # wanted THEN "break" ELSE "frame"

\* lines 388-391: "continue" (read), "break" (0 bytes) or the throw of line 391
MagicReadOutcome(sizeCheck, wanted) ==
    IF sizeCheck = 0 THEN "break"
    ELSE IF sizeCheck # wanted THEN "throw"
    ELSE "frame"

DecompressMagic ==
    /\ pc = "d_magic"
    /\ LET got == FRead(MagicSize)
           outcome == MagicReadOutcome(Len(got), MagicSize)
       IN  /\ toRead' = MagicSize
           /\ inBuff' = got
           /\ srcPos' = srcPos + Len(got)
           /\ log' = Append(log, Ev("magic", Len(got)))
           /\ IF outcome = "throw"
              THEN /\ EXM_THROW(ErrHeader, MsgHeader)
              ELSE /\ pc' = IF outcome = "break" THEN "d_clean" ELSE "d_dispatch"
                   /\ UNCHANGED ending
    /\ UNCHANGED <<globals, disk, op, res, handles, srcData, bufs, outBuff, inSize,
                   readSize, inStart, frameSize, lastIn, codec, total, envFault>>

\* variant: the magic number is read in big-endian order
IsLegacyFrame_BigEndian(buf) ==
    ZSTD_isLegacy(<<buf[1] * 256 + buf[2], buf[3] * 256 + buf[4]>>)

\* line 393: is the frame given to the legacy decoder
IsLegacyFrame(buf) == ZSTD_isLegacy(MEM_readLE32(buf))

\* lines 393-397
DecompressLegacy ==
    /\ pc = "d_dispatch"
    /\ IsLegacyFrame(inBuff)
    /\ LET r == FIO_decompressLegacyFrame(MEM_readLE32(inBuff), Drop(srcData, srcPos))
       IN  /\ FWrite(r.out, Len(r.out))
           /\ srcPos' = srcPos + r.consumed
           /\ total' = AddSize(total, r.size)
           /\ log' = Append(log, Ev("legacy", r.size))
    /\ pc' = "d_magic"
    /\ UNCHANGED <<globals, frames, op, res, handles, srcData, bufs, locals, codec,
                   ending, envFault>>

\* variant: the session is set up for its first frame only
FrameSession_InitOnce(d) == IF d.stage = "none" THEN ZBUFF_decompressInit(d) ELSE d

\* line 332: the session a frame is decoded with
FrameSession(d) == ZBUFF_decompressInit(d)

\* line 329: size_t readSize=alreadyLoaded
FramePending(alreadyLoaded) == alreadyLoaded

\* lines 400, 328-332: FIO_decompressFrame is entered with alreadyLoaded = toRead.
\* ZBUFF_decompressInit on a NULL session is undefined: the process crashes or
\* goes on with a session that was never set up.
DecompressFrameInit ==
    /\ pc = "d_dispatch"
    /\ ~IsLegacyFrame(inBuff)
    /\ frameSize' = 0
    /\ readSize' = FramePending(toRead)
    /\ log' = Append(log, Ev("dinit", 0))
    /\ lastIn' = NoCall
    /\ IF dctx = NullDCtx
       THEN /\ UNCHANGED <<dctx, exitCode, exitMsg, retval>>
            /\ pc' \in {"crash", "f_decode"}
       ELSE /\ dctx' = FrameSession(dctx)
            /\ pc' = "f_decode"
            /\ UNCHANGED ending
    /\ UNCHANGED <<globals, disk, op, res, handles, source, bufs, inBuff, outBuff,
                   inSize, inStart, toRead, cctx, total, envFault>>

\* line 338: inStart is declared, and set to 0, in the body of the loop
InStartOfIteration(previous) == 0

\* variant: the consumed bytes are not taken off the pending count
PendingAfter_Keep(pending, used) == pending

\* line 341: readSize -= inSize
PendingAfter(pending, used) == pending - used

\* lines 337-342, with a decoder engine that takes one of `takes` bytes
FrameDecodeWith(takes) ==
    /\ pc = "f_decode"
    /\ \E take \in takes :
       LET start == InStartOfIteration(inStart)
           in == SubSeq(inBuff, start + 1, start + readSize)
           r == ZBUFF_decompressContinue(dctx, in, take)
       IN  /\ log' = Append(log, Ev("dcont", readSize))
           /\ lastIn' = [in |-> in, used |-> r.used, toRead |-> r.toRead, err |-> r.err,
                         fresh |-> FALSE]
           /\ IF r.err
              THEN /\ EXM_THROW(ErrDecoding, MsgDecoding)
                   /\ UNCHANGED <<dctx, outBuff, toRead, readSize, inStart>>
              ELSE /\ dctx' = r.d
                   /\ outBuff' = r.out
                   /\ toRead' = r.toRead
                   /\ readSize' = PendingAfter(readSize, r.used)
                   /\ inStart' = start + r.used
                   /\ pc' = "f_write"
                   /\ UNCHANGED ending
    /\ UNCHANGED <<globals, disk, op, res, handles, source, bufs, inBuff, inSize,
                   frameSize, cctx, total, envFault>>

\* lines 337-342
FrameDecode == FrameDecodeWith(DecoderTakes(readSize))

\* lines 345-347
FrameWrite ==
    /\ pc = "f_write"
    /\ \E sizeCheck \in WriteResults(Len(outBuff)) :
        /\ FWrite(outBuff, sizeCheck)
        /\ log' = Append(log, Ev("write", sizeCheck))
        /\ IF sizeCheck # Len(outBuff)
           THEN /\ EXM_THROW(ErrDWrite, MsgDWrite)
                /\ envFault' = TRUE
                /\ UNCHANGED frameSize
           ELSE /\ frameSize' = AddSize(frameSize, Len(outBuff))
                /\ pc' = "f_check"
                /\ UNCHANGED <<ending, envFault>>
    /\ UNCHANGED <<globals, frames, op, res, handles, source, bufs, inBuff, outBuff,
                   inSize, readSize, inStart, toRead, lastIn, codec, total>>

\* variant: the requested size is not compared with the capacity of the buffer
AfterWrite_NoCapacityCheck(next, pending, capacity) ==
    IF next = 0 THEN "break"
    ELSE IF pending # 0 THEN "continue"
    ELSE "fill"

\* variant: pending bytes are not looked at before the next read
AfterWrite_AlwaysFill(next, pending, capacity) ==
    IF next = 0 THEN "break"
    ELSE IF next > capacity THEN "throw"
    ELSE "fill"

\* lines 350-354: what the sub-loop does after the write
AfterWrite(next, pending, capacity) ==
    IF next = 0 THEN "break"
    ELSE IF pending # 0 THEN "continue"
    ELSE IF next > capacity THEN "throw"
    ELSE "fill"

\* lines 350-354, 359 and the addition of line 400
FrameCheck ==
    /\ pc = "f_check"
    /\ LET todo == AfterWrite(toRead, readSize, ZBUFF_recommendedDInSize)
       IN  /\ IF todo = "throw"
              THEN EXM_THROW(ErrTooLarge, MsgTooLarge)
              ELSE /\ pc' = CASE todo = "break" -> "d_magic"
                              [] todo = "continue" -> "f_decode"
                              [] OTHER -> "f_fill"
                   /\ UNCHANGED ending
           /\ total' = IF todo = "break" THEN AddSize(total, frameSize) ELSE total
    /\ UNCHANGED <<globals, disk, op, res, handles, source, bufs, locals, codec, log,
                   envFault>>

\* lines 355-356
FrameFill ==
    /\ pc = "f_fill"
    /\ LET got == FRead(toRead)
       IN  /\ inBuff' = got
           /\ readSize' = Len(got)
           /\ srcPos' = srcPos + Len(got)
           /\ log' = Append(log, Ev("fill", Len(got)))
           /\ IF Len(got) # toRead
              THEN EXM_THROW(ErrRead, MsgRead)
              ELSE /\ pc' = "f_decode"
                   /\ UNCHANGED ending
    /\ UNCHANGED <<globals, disk, op, res, handles, srcData, bufs, outBuff, inSize,
                   inStart, toRead, frameSize, lastIn, codec, total, envFault>>

\* lines 407-413
DecompressClean ==
    /\ pc = "d_clean"
    /\ bufs' = <<>>
    /\ dctx' = NullDCtx
    /\ \E closed \in BOOLEAN :
        /\ log' = log \o CleanCalls(bufs, IF closed THEN 0 ELSE EOF)
        /\ IF closed
           THEN /\ pc' = "returned"
                /\ retval' = total
                /\ UNCHANGED <<exitCode, exitMsg, envFault>>
           ELSE /\ EXM_THROW(ErrDClose, MsgClose)
                /\ envFault' = TRUE
    /\ UNCHANGED <<globals, disk, op, res, handles, source, locals, cctx, total>>

FIO_decompressFrame ==
    \/ FrameDecode
    \/ FrameWrite
    \/ FrameCheck
    \/ FrameFill

FIO_decompressFilename ==
    \/ DecompressCreate
    \/ DecompressGetFileHandles
    \/ DecompressAlloc
    \/ DecompressMagic
    \/ DecompressLegacy
    \/ DecompressFrameInit
    \/ FIO_decompressFrame
    \/ DecompressClean

Next ==
    \/ FIO_overwriteMode
    \/ FIO_setNotificationLevel
    \/ CallCompress
    \/ FIO_compressFilename
    \/ CallDecompress
    \/ FIO_decompressFilename

Spec == Init /\ [][Next]_vars

(***************************************************************************)
(* Properties                                                               *)
(***************************************************************************)
Events(e) == {i \in 1..Len(log) : log[i].e = e}
Count(e) == Cardinality(Events(e))
EventSizes(e) == [i \in 1..Count(e) |-> SelectSeq(log, LAMBDA x : x.e = e)[i].n]
Ended == pc \in {"exit", "crash"}
\* the decompression has opened its source and knows what it holds
Decoding == op = "decompress" /\ pc \notin {"d_create", "d_handles", "d_alloc"}
           /\ finput # NULL

\* C1 (round trip): a decompression whose source is the one frame that a
\* compression of B produced, and in which no allocation, no file operation
\* fails, does not end in a fatal error, and once it has returned the
\* destination holds exactly B and the value returned is the length of B.
C1_RoundTrip ==
    (Decoding /\ Len(frames) = 1 /\ srcData = archive /\ ~envFault) =>
        /\ ~Ended
        /\ (pc = "returned" => retval = Len(frames[1]))
        /\ (pc = "returned" /\ foutput = "store" => plain = frames[1])

\* C2 (concatenation): a decompression whose source is F1 ++ F2, the frames of
\* two compressions, does not end in a fatal error; once it has returned the
\* destination holds the first source followed by the second, the magic number
\* reads returned 4, 4 and 0 bytes, and two frames were decoded.
C2_Concatenation ==
    (Decoding /\ Len(frames) = 2 /\ srcData = archive /\ ~envFault) =>
        /\ ~Ended
        /\ (pc = "returned" =>
              /\ EventSizes("magic") = <<4, 4, 0>>
              /\ Count("dinit") = 2
              /\ (foutput = "store" => plain = frames[1] \o frames[2]))

\* C3 (exactly one end marker): in a compression, compress-end is called at most
\* once, and exactly once when the driver returns; it comes after the read that
\* returned 0 bytes, no read, compress-continue or compress-end follows it, and
\* when it returns a non-zero value nothing at all follows it: the process ends
\* with code 26.
C3_OneEndMarker ==
    op = "compress" =>
        /\ Count("end") <= 1
        /\ (pc = "returned" => Count("end") = 1)
        /\ \A i \in Events("end") :
            /\ \E j \in 1..(i - 1) : log[j] = Ev("read", 0)
            /\ \A j \in (i + 1)..Len(log) : log[j].e \notin {"read", "cont", "end"}
            /\ (log[i].n # 0 => i = Len(log) /\ pc = "exit" /\ exitCode = 26)

\* a compression of a two-chunk source has returned
C3_Witness ==
    op = "compress" /\ pc = "returned" /\ Count("cont") = 2 /\ Count("end") = 1

\* C4 (carry-over keeps the unconsumed bytes): when a decompress-continue call
\* was given b[0..p-1], consumed c bytes with 0 < c < p and asked for more, the
\* next decompress-continue call of the frame is given b[c..p-1].
C4_CarryOver ==
    [][(pc = "f_decode" /\ ~lastIn.fresh /\ lastIn.toRead # 0
        /\ 0 < lastIn.used /\ lastIn.used < Len(lastIn.in))
       => lastIn'.in = Drop(lastIn.in, lastIn.used)]_vars

\* C5 (no superfluous read): in the sub-loop, when the decoder asked for more
\* while buffered bytes are pending, the next step is the next decompress-continue
\* call and the source is not read; the source is read in the sub-loop only with
\* no byte pending and a non-zero requested size.
C5_NoSuperfluousRead ==
    [][/\ (pc = "f_check" /\ toRead # 0 /\ readSize > 0)
          => (pc' = "f_decode" /\ srcPos' = srcPos /\ log' = log)
       /\ (pc \in {"f_decode", "f_write", "f_check", "f_fill"} /\ srcPos' # srcPos)
          => (readSize = 0 /\ toRead # 0 /\ log' = Append(log, Ev("fill", srcPos' - srcPos)))
      ]_vars

\* the decoder asked for more with bytes pending, and is about to be called again
C5_Witness ==
    /\ pc = "f_decode" /\ ~lastIn.fresh /\ lastIn.toRead # 0
    /\ readSize > 0 /\ readSize = Len(lastIn.in) - lastIn.used
    /\ log[Len(log)].e = "write"

\* C6 (fatal on truncation at a frame boundary): a magic number read that
\* returns 1, 2 or 3 bytes is the last thing the decompression does, and the
\* process ends with code 31; code 31 has no other cause; the driver returns
\* only after a magic number read that returned 0 bytes, with no read, decoder
\* call or write after it; on an empty source it returns 0 and has made no
\* decoder call, no legacy call and no write.
C6_FatalOnTruncation ==
    op = "decompress" =>
        /\ \A i \in Events("magic") :
              log[i].n \in 1..3 => (i = Len(log) /\ pc = "exit" /\ exitCode = 31)
        /\ (pc = "exit" /\ exitCode = 31) =>
              (log # <<>> /\ log[Len(log)].e = "magic" /\ log[Len(log)].n \in 1..3)
        /\ (pc = "returned") =>
              \E i \in Events("magic") :
                  /\ log[i].n = 0
                  /\ \A j \in (i + 1)..Len(log) :
                        log[j].e \notin {"magic", "fill", "dinit", "dcont", "legacy", "write"}
        /\ (pc = "returned" /\ srcData = <<>>) =>
              /\ retval = 0
              /\ Events("dinit") \cup Events("dcont") \cup Events("legacy")
                    \cup Events("write") = {}

\* 1 to 3 bytes follow a frame that was decoded, and the process has ended
C6_Witness ==
    /\ op = "decompress" /\ pc = "exit" /\ exitCode = 31
    /\ Count("dinit") = 1 /\ Count("magic") = 2 /\ Len(srcData) - Len(archive) \in 1..3

\* the byte patterns of the legacy magic numbers, as they stand in a stream
LegacyMagicBytes == {<<253, 47, 181, 30>>, <<34, 181, 47, 253>>, <<35, 181, 47, 253>>}

\* C7 (magic dispatch): after a magic number read of 4 bytes, a frame whose 4
\* bytes are a legacy magic number is handed to the legacy decoder, once: the
\* call is the only thing the step does besides adding the count it returns to
\* the total, the decoder session is not touched, and the next step is the next
\* magic number read; a frame with any other 4 bytes enters the sub-loop with
\* decompress-init and is not handed to the legacy decoder.  The legacy decoder
\* is called in no other step.
C7_MagicDispatch ==
    [][/\ (pc = "d_dispatch" /\ inBuff \in LegacyMagicBytes) =>
            /\ log' = Append(log, Ev("legacy", total' - total))
            /\ pc' = "d_magic"
            /\ dctx' = dctx
            /\ UNCHANGED handles
       /\ (pc = "d_dispatch" /\ inBuff \notin LegacyMagicBytes) =>
            /\ log' = Append(log, Ev("dinit", 0))
            /\ pc' \in {"f_decode", "crash"}
            /\ total' = total
       /\ (Len(log') > Len(log) /\ log'[Len(log')].e \in {"legacy", "dinit"}) =>
            (pc = "d_dispatch" /\ log[Len(log)] = Ev("magic", 4))
       /\ (pc = "d_magic" /\ log # <<>> /\ log[Len(log)].e = "legacy") =>
            log'[Len(log')].e = "magic"
      ]_vars

\* a legacy frame and a current-format frame of one source have both been decoded
C7_Witness ==
    /\ op = "decompress" /\ pc = "returned"
    /\ Count("legacy") = 1 /\ Count("dinit") = 1 /\ retval = 2

\* C8 (overwrite gate): for a destination that is neither stdout nor the null
\* sink, the resolver ends with code 11 exactly when the destination exists,
\* the overwrite flag is unset and either the notification level is <= 1 or the
\* answer is neither 'Y' nor 'y'; with level <= 1 there is no prompt; when it
\* ends with code 11 the destination has not been opened for writing; with
\* the overwrite flag set, or stdout or the null sink as destination, there is
\* no prompt and no code 11.
C8_OverwriteGate ==
    res.called =>
        /\ (res.output \notin {stdoutmark, nulmark}) =>
              ((res.code = 11) <=>
                  (/\ res.dstExists
                   /\ g_overwrite = 0
                   /\ (g_displayLevel <= 1 \/ res.ch \notin {89, 121})))
        /\ (g_displayLevel <= 1 => ~res.prompted /\ res.ch = NoChar)
        /\ (res.prompted <=> Count("prompt") = 1)
        /\ (res.code = 11) =>
              /\ pc = "exit" /\ exitCode = 11
              /\ res.foutput = NULL /\ foutput = NULL /\ ~res.truncated
        /\ (g_overwrite = 1 \/ res.output \in {stdoutmark, nulmark}) =>
              (~res.prompted /\ res.code # 11 /\ exitCode # 11)

\* a compression into an existing file, overwrite flag unset, level <= 1
C8_Witness ==
    /\ op = "compress" /\ res.called /\ res.output = "file" /\ res.dstExists
    /\ g_overwrite = 0 /\ g_displayLevel <= 1
    /\ pc = "exit" /\ exitCode = 11 /\ Count("prompt") = 0

InLoop == pc \in {"c_read", "c_cont", "c_write", "c_end", "c_endwrite", "c_clean",
                  "d_magic", "d_dispatch", "f_decode", "f_write", "f_check",
                  "f_fill", "d_clean"}

\* C9 (constant memory): the driver holds at most two buffers; in its loops it
\* holds exactly one input and one output buffer of the sizes the engine
\* recommends; it allocates at most twice, before any read of the source and
\* any codec call, whatever the length of the source.
C9_ConstantMemory ==
    /\ Len(bufs) <= 2
    /\ Count("alloc") <= 2
    /\ \A i \in Events("alloc") : \A j \in 1..(i - 1) : log[j].e \in {"alloc", "prompt"}
    /\ (InLoop /\ op = "compress") =>
          (bufs = <<ZBUFF_recommendedCInSize, ZBUFF_recommendedCOutSize>>
           /\ Count("alloc") = 2)
    /\ (InLoop /\ op = "decompress") =>
          (bufs = <<ZBUFF_recommendedDInSize, ZBUFF_recommendedDOutSize>>
           /\ Count("alloc") = 2)

\* a compression of a source of twice the recommended input size is in its third read
C9_Witness ==
    /\ op = "compress" /\ pc = "c_end" /\ Count("read") = 3
    /\ Len(srcData) = 2 * ZBUFF_recommendedCInSize /\ Len(bufs) = 2

\* the fatal condition each exit code stands for
ConditionOf(code) ==
    CASE code = 11 -> "Operation aborted : %s already exists"
      [] code = 12 -> "Pb opening src : %s"
      [] code = 13 -> "Pb opening dst : %s"
      [] code = 21 -> "Allocation error : not enough memory"
      [] code = 22 -> "Error initializing compression"
      [] code = 23 -> "Compression error : %s "
      [] code = 24 -> "Compression error : input block not fully consumed"
      [] code = 25 -> "Write error : cannot write compressed block into %s"
      [] code = 26 -> "Compression error : cannot create frame end"
      [] code = 27 -> "Write error : cannot write frame end into %s"
      [] code = 28 -> "Write error : cannot properly close %s"
      [] code = 31 -> "Read error : cannot read header"
      [] code = 33 -> "Allocation error : not enough memory"
      [] code = 34 -> "too large block"
      [] code = 35 -> "Read error"
      [] code = 36 -> "Decoding error : %s"
      [] code = 37 -> "Write error : unable to write data block to destination file"
      [] code = 38 -> "Write error : cannot properly close %s"
      [] OTHER -> "none"

\* C10 (distinct error codes): every fatal termination carries an exit code in
\* 1..255, and the code determines the fatal condition: the condition reported
\* is the one the code stands for; a source that cannot be opened ends with 12
\* and a destination that cannot be opened with 13.
C10_DistinctCodes ==
    /\ (pc = "exit") =>
          /\ exitCode \in 1..255
          /\ exitMsg = ConditionOf(exitCode)
    /\ (pc # "exit") => exitCode = 0
    /\ (res.called /\ res.code # 11 /\ res.finput = NULL) => (pc = "exit" /\ exitCode = 12)
    /\ (res.called /\ res.code # 11 /\ res.finput # NULL /\ res.foutput = NULL) =>
          (pc = "exit" /\ exitCode = 13)

\* the destination could not be opened
C10_Witness ==
    /\ pc = "exit" /\ exitCode = 13 /\ res.called /\ ~res.dstOk /\ res.finput # NULL

\* C11 (allocation failure is fatal in the decompression driver): a
\* decompression that ended with the allocation error (code 33) has made no
\* source read and no decoder call; and the driver never enters the frame loop,
\* and never calls decompress-init or decompress-continue, with a session whose
\* creation failed (a null session).
C11_AllocFailureFatal ==
    op = "decompress" =>
        /\ (pc = "exit" /\ exitCode = 33) =>
              Events("magic") \cup Events("dinit") \cup Events("dcont") = {}
        /\ pc # "crash"
        /\ (bufs # <<>> /\ Count("dinit") + Count("dcont") > 0) => dctx # NullDCtx

\* C12 (fatal errors are absorbing and do not roll back output): a process that
\* has raised a fatal condition has ended: a non-zero exit code is set only in
\* the ended process, which has returned no byte count, and the ended process
\* takes no further step (no read, write, codec call or close).  The step that
\* raises the condition leaves the destination as it was, but for the bytes that
\* the write of that step put at its end (or the truncation of the open in the
\* resolver): what was written before stays in place.
C12_FatalAbsorbing ==
    /\ [](exitCode # 0 => (pc = "exit" /\ retval = 0))
    /\ [][/\ pc # "exit"
          /\ (pc' = "exit" /\ pc \notin {"c_handles", "d_handles"}) =>
                \E k \in 0..Len(outBuff) :
                    /\ archive' = IF op = "compress" /\ foutput = "store"
                                  THEN archive \o Take(outBuff, k) ELSE archive
                    /\ plain' = IF op = "decompress" /\ foutput = "store"
                                THEN plain \o Take(outBuff, k) ELSE plain
                    /\ (archive' # archive \/ plain' # plain) =>
                          log' = Append(log, Ev("write", k))
                    /\ handles' = handles
          /\ (pc' = "exit" /\ pc \in {"c_handles", "d_handles"}) =>
                /\ archive' \in {archive, <<>>}
                /\ plain' \in {plain, <<>>}
         ]_vars

\* the write of the frame end came short after a block was written: the
\* process has ended and the archive holds the block
C12_Witness ==
    /\ op = "compress" /\ pc = "exit" /\ exitCode = 27 /\ foutput = "store"
    /\ Count("write") = 2 /\ Len(archive) >= 4 + 2

\* C13 (partial consumption during compression is fatal, not retried): a
\* compress-continue call is made only right after a read that returned a
\* non-empty chunk, on that chunk whole, once.  When the engine reports an
\* error the process ends with code 23, whatever it consumed; when it reports
\* no error and a consumed count other than the fed count the process ends with
\* code 24; in both cases the destination is left as it was, so the output of
\* the call is not written and the chunk is not fed again.  Otherwise the
\* output of the call is written next.
C13_PartialConsumptionFatal ==
    [][/\ (Len(log') > Len(log) /\ log'[Len(log')].e = "cont") =>
            /\ pc = "c_cont" /\ log # <<>>
            /\ log[Len(log)] = Ev("read", Len(inBuff)) /\ inBuff # <<>>
            /\ log' = Append(log, Ev("cont", Len(inBuff)))
            /\ lastIn'.in = inBuff
       /\ (pc = "c_cont") =>
            /\ log' = Append(log, Ev("cont", Len(inBuff)))
            /\ lastIn'.err => (pc' = "exit" /\ exitCode' = 23)
            /\ (~lastIn'.err /\ lastIn'.used # Len(inBuff)) =>
                  (pc' = "exit" /\ exitCode' = 24)
            /\ (~lastIn'.err /\ lastIn'.used = Len(inBuff)) => pc' = "c_write"
            /\ archive' = archive /\ total' = total /\ srcPos' = srcPos
      ]_vars

\* the second chunk was not consumed whole, and the process has ended
C13_Witness ==
    /\ op = "compress" /\ pc = "exit" /\ exitCode = 24 /\ Count("cont") = 2
    /\ ~lastIn.err /\ lastIn.used < Len(lastIn.in)
    /\ log[Len(log)].e = "cont"

\* the position in the log of the last magic number read before position i
LastMagicBefore(i) ==
    LET before == {j \in Events("magic") : j < i}
    IN  IF before = {} THEN 0 ELSE CHOOSE m \in before : \A j \in before : j <= m

\* C14 (decoder session lifecycle per frame): in a decompression the session is
\* created in the first step only, before anything else, and destroyed in the
\* clean-up only, once.  Decompress-init is called right after a magic number
\* read of 4 bytes, when no frame is being decoded (no decompress-continue call
\* was made yet, or the last one returned a next requested size of 0), and it
\* leaves the session in its clean state; every decompress-continue call has
\* exactly one decompress-init between the last magic number read and itself.
C14_SessionLifecycle ==
    /\ [](op = "decompress" =>
            /\ (pc = "d_create" => log = <<>> /\ dctx = NullDCtx)
            /\ Count("freectx") <= 1
            /\ (pc = "returned" => Count("freectx") = 1)
            /\ \A i \in Events("dcont") :
                  /\ LastMagicBefore(i) > 0
                  /\ Cardinality({j \in Events("dinit") :
                                     LastMagicBefore(i) < j /\ j < i}) = 1)
    /\ [][op = "decompress" =>
            /\ (dctx = NullDCtx /\ dctx' # NullDCtx) => (pc = "d_create" /\ op' = op)
            /\ (dctx # NullDCtx /\ dctx' = NullDCtx) =>
                  (pc = "d_clean" /\ Count("freectx")' = 1)
            /\ (Len(log') > Len(log) /\ log'[Len(log')].e = "dinit") =>
                  /\ pc = "d_dispatch" /\ log[Len(log)] = Ev("magic", 4)
                  /\ log' = Append(log, Ev("dinit", 0))
                  /\ lastIn.fresh \/ (lastIn.toRead = 0 /\ ~lastIn.err)
                  /\ dctx # NullDCtx => dctx' = [stage |-> "magic", need |-> 4]
            /\ (pc \in {"f_decode", "f_write", "f_check", "f_fill"}) =>
                  Count("dinit")' = Count("dinit")
      ]_vars

\* two frames were decoded with the one session, and the driver has returned
C14_Witness ==
    /\ op = "decompress" /\ pc = "returned"
    /\ Count("dinit") = 2 /\ Count("dcont") >= 4 /\ Count("freectx") = 1
    /\ Count("legacy") = 0

\* C15 (bounded pending input): every decompress-continue call is given exactly
\* the pending bytes, which are never more than the input buffer holds, and the
\* first call of a frame is given 4 bytes.  A refill is made with no byte
\* pending, asks the source for exactly the next requested size, which is not
\* larger than the input buffer, and either makes that many bytes pending or,
\* on a short read, ends the process with code 35.  A requested size larger
\* than the input buffer ends the process with code 34 and nothing is read.
C15_BoundedPending ==
    [][/\ (pc = "f_decode") =>
            /\ log' = Append(log, Ev("dcont", readSize))
            /\ Len(lastIn'.in) = readSize
            /\ readSize <= ZBUFF_recommendedDInSize
            /\ (log[Len(log)].e = "dinit" => readSize = 4)
       /\ (pc = "f_check" /\ readSize = 0 /\ toRead > ZBUFF_recommendedDInSize) =>
            (pc' = "exit" /\ exitCode' = 34 /\ srcPos' = srcPos /\ log' = log)
       /\ (pc = "f_fill") =>
            /\ readSize = 0 /\ toRead # 0 /\ toRead <= ZBUFF_recommendedDInSize
            /\ \E k \in 0..toRead :
                  /\ log' = Append(log, Ev("fill", k))
                  /\ srcPos' = srcPos + k
                  /\ k = Min(toRead, Len(srcData) - srcPos)
                  /\ (k = toRead => pc' = "f_decode" /\ readSize' = toRead)
                  /\ (k # toRead => pc' = "exit" /\ exitCode' = 35)
       /\ (Len(log') > Len(log) /\ log'[Len(log')].e = "fill") => pc = "f_fill"
      ]_vars

\* a frame has been refilled twice and the decoder is about to be called on
\* the bytes of the second refill
C15_Witness ==
    /\ pc = "f_decode" /\ Count("fill") = 2 /\ log[Len(log)].e = "fill"
    /\ readSize = log[Len(log)].n /\ readSize > 0

\* the sum of the sizes of the events e among the first k events of the log
RECURSIVE SumSizes(_, _)
SumSizes(e, k) ==
    IF k = 0 THEN 0
    ELSE SumSizes(e, k - 1) + (IF log[k].e = e THEN log[k].n ELSE 0)
Written(e) == SumSizes(e, Len(log))
InFrame == pc \in {"f_decode", "f_write", "f_check", "f_fill"}

\* C16 (returned totals equal bytes produced): in a compression that has not
\* ended on a short write, the counter of compressed bytes is the number of
\* bytes written to the destination so far, and the value returned is that
\* number: the length of the frame the engine produced for the source.  In a
\* running decompression the counter, with the count of the frame being
\* decoded, is the number of bytes the sub-loop has written plus the counts the
\* legacy decoder returned, and the value returned is that sum.  The counters
\* never decrease during a run.
C16_ReturnedTotals ==
    /\ [](/\ (op = "compress" /\ ~(pc = "exit" /\ exitCode \in {25, 27})) =>
                /\ total = Written("write")
                /\ (pc = "returned" =>
                      (retval = total /\ retval = Len(FrameOf(srcData))))
          /\ (op = "decompress" /\ pc \notin {"exit", "crash"}) =>
                /\ total + (IF InFrame THEN frameSize ELSE 0)
                      = Written("write") + Written("legacy")
                /\ (pc = "returned" => retval = total))
    /\ [][(pc \notin {"idle", "returned"}) =>
             /\ total' >= total
             /\ (InFrame /\ pc' # "exit") => frameSize' >= frameSize
             /\ retval' >= retval
         ]_vars

\* a legacy frame of one byte and current-format frames of two bytes were decoded
C16_Witness ==
    /\ op = "decompress" /\ pc = "returned" /\ retval = 3
    /\ Written("legacy") = 1 /\ Written("write") = 2

CleanEvents == {"free", "freectx", "closeSrc", "closeDst"}
IOEvents == {"read", "cont", "end", "write", "magic", "dinit", "dcont", "fill", "legacy",
             "alloc", "prompt"}
CleanDone == log # <<>> /\ log[Len(log)].e = "closeDst"

\* C17 (orderly shutdown): a driver that has returned has, as its last five
\* calls and in this order, released its two buffers, released the codec
\* session, closed the source and closed the destination, each once, and made
\* no read, write or codec call after the first of them; nothing is released or
\* closed before.  The driver returns exactly when the close of the
\* destination reported no error; when it reported one the process has ended
\* with code 28 (compression) or 38 (decompression), which have no other cause.
C17_OrderlyShutdown ==
    /\ (pc = "returned" => CleanDone /\ log[Len(log)].n = 0)
    /\ (pc = "exit" /\ exitCode \in {28, 38}) <=> (CleanDone /\ log[Len(log)].n # 0)
    /\ (pc = "exit" /\ exitCode = 28 => op = "compress")
    /\ (pc = "exit" /\ exitCode = 38 => op = "decompress")
    /\ ~CleanDone => \A i \in 1..Len(log) : log[i].e \notin CleanEvents
    /\ CleanDone =>
          LET n == Len(log)
              sizes == IF op = "compress"
                       THEN <<ZBUFF_recommendedCInSize, ZBUFF_recommendedCOutSize>>
                       ELSE <<ZBUFF_recommendedDInSize, ZBUFF_recommendedDOutSize>>
          IN  /\ n >= 5
              /\ SubSeq(log, n - 4, n - 1) =
                    <<Ev("free", sizes[1]), Ev("free", sizes[2]), Ev("freectx", 0),
                      Ev("closeSrc", 0)>>
              /\ \A i \in 1..(n - 5) : log[i].e \in IOEvents
              /\ bufs = <<>> /\ cctx = NullCCtx /\ dctx = NullDCtx

\* a compression has written its frame, shut down and returned
C17_Witness ==
    /\ op = "compress" /\ pc = "returned" /\ CleanDone
    /\ Count("write") = 2 /\ Count("free") = 2 /\ Count("closeDst") = 1

(***************************************************************************)
(* Termination of the decompression driver.  The disk holds an archive that *)
(* earlier compressions have written; the decoder engine may, a bounded      *)
(* number of times, consume nothing of the pending bytes it is offered.      *)
(***************************************************************************)
\* number of decompress-continue calls of a run that may consume nothing
MaxStalls == 1

\* the archive that compressions of the sources fs, one after the other, write
ArchiveOf(fs) == Flatten([i \in 1..Len(fs) |-> FrameOf(fs[i])])

\* the sources an archive on the disk may have been made of; what the driver
\* does next never depends on the value of a decoded byte, so one value stands
\* for all
StoredSources == {[i \in 1..n |-> 65] : n \in 0..MaxLen}
StoredFrames ==
    {fs \in UNION {[1..k -> StoredSources] : k \in 0..MaxFrames} :
        Len(Flatten(fs)) <= MaxLen}

\* the decompress-continue calls of the run that consumed nothing: a call that
\* is followed, after the write, by a call on as many pending bytes; and the
\* last call, when it consumed nothing
Stalls ==
    Cardinality({i \in Events("dcont") : i + 2 <= Len(log) /\ log[i + 2] = log[i]})
        + (IF pc \in {"f_write", "f_check"} /\ ~lastIn.fresh /\ ~lastIn.err
              /\ lastIn.used = 0
           THEN 1 ELSE 0)

\* a decoder engine that may consume nothing in the first calls of a frame
StallingTakes(n) ==
    DecoderTakes(n) \cup (IF Stalls < MaxStalls /\ (lastIn.fresh \/ lastIn.used = 0)
                          THEN {0} ELSE {})

FrameDecodeStalling == FrameDecodeWith(StallingTakes(readSize))

\* the overwrite mode is set, so that no run waits for an answer
InitStored ==
    /\ g_overwrite = 1
    /\ g_displayLevel = 2
    /\ frames \in StoredFrames
    /\ archive = ArchiveOf(frames)
    /\ plain = <<>>
    /\ pc = "idle"
    /\ op = "none"
    /\ res = NoRes
    /\ finput = NULL /\ foutput = NULL
    /\ srcData = <<>> /\ srcPos = 0
    /\ bufs = <<>>
    /\ inBuff = <<>> /\ outBuff = <<>>
    /\ inSize = 0 /\ readSize = 0 /\ inStart = 0 /\ toRead = 0 /\ frameSize = 0
    /\ cctx = NullCCtx /\ dctx = NullDCtx
    /\ total = 0
    /\ exitCode = 0 /\ exitMsg = "" /\ retval = 0
    /\ log = <<>>
    /\ lastIn = NoCall
    /\ envFault = FALSE

NextDecompress ==
    \/ CallDecompress
    \/ DecompressCreate
    \/ DecompressGetFileHandles
    \/ DecompressAlloc
    \/ DecompressMagic
    \/ DecompressLegacy
    \/ DecompressFrameInit
    \/ FrameDecodeStalling
    \/ FrameWrite
    \/ FrameCheck
    \/ FrameFill
    \/ DecompressClean

\* the driver, once called, goes on until it returns or the process ends
SpecTermination == InitStored /\ [][NextDecompress]_vars /\ WF_vars(NextDecompress)

Done == pc \in {"returned", "exit", "crash"}

\* C18 (termination of decompression): every run of the decompression driver
\* ends, by a return or by the end of the process, when the decoder engine
\* consumes at least one byte in all but a bounded number of its calls:
\* a call takes what it consumed off the pending bytes, a refill takes the
\* bytes it read off the source, and a magic number read takes 4 bytes off
\* the source.  A call that consumes nothing of the pending bytes and asks for
\* more leaves the pending bytes, the session and the source as they were, and
\* the step after the write leads back to the same call with nothing read: a
\* decoder engine that goes on doing so keeps the sub-loop running forever.
C18_Termination ==
    /\ <>Done
    /\ [][/\ (pc = "f_decode" /\ pc' = "f_write") =>
               /\ readSize > 0
               /\ readSize' = readSize - lastIn'.used
               /\ srcPos' = srcPos
               /\ (lastIn'.used = 0 /\ toRead' # 0) =>
                     (dctx' = dctx /\ outBuff' = <<>> /\ inBuff' = inBuff)
          /\ (pc = "f_write" /\ pc' = "f_check") =>
               UNCHANGED <<readSize, toRead, dctx, inBuff, srcPos>>
          /\ (pc = "f_check" /\ toRead # 0 /\ readSize > 0) =>
               (pc' = "f_decode" /\ UNCHANGED <<readSize, toRead, dctx, inBuff, srcPos>>)
          /\ (pc = "f_fill" /\ pc' = "f_decode") =>
               (srcPos' > srcPos /\ readSize' = srcPos' - srcPos)
          /\ (pc = "d_magic" /\ pc' = "d_dispatch") => srcPos' = srcPos + 4
          /\ srcPos' >= srcPos \/ pc \in {"idle", "returned"}
         ]_vars

\* the decoder engine has consumed nothing of the pending bytes, and the driver
\* is about to call it again on the same bytes
C18_Witness ==
    /\ pc = "f_decode" /\ ~lastIn.fresh /\ lastIn.used = 0 /\ lastIn.toRead # 0
    /\ readSize > 0 /\ readSize = Len(lastIn.in) /\ Take(inBuff, readSize) = lastIn.in
    /\ log[Len(log)] = Ev("write", 0)

\* the positions of the source at which a frame starts or the last frame ends,
\* found by decoding each frame in one piece
RECURSIVE Boundaries(_, _)
Boundaries(data, at) ==
    {at} \cup
    IF at + 4 > Len(data) THEN {}
    ELSE LET magic == MEM_readLE32(SubSeq(data, at + 1, at + 4))
         IN  IF ZSTD_isLegacy(magic)
             THEN Boundaries(data, at + 4 +
                      FIO_decompressLegacyFrame(magic, Drop(data, at + 4)).consumed)
             ELSE LET r == ZBUFF_decompressContinue(
                               ZBUFF_decompressInit(ZBUFF_createDCtx),
                               Drop(data, at), Len(data))
                  IN  IF ~r.err /\ r.d.stage = "end"
                      THEN Boundaries(data, at + r.used) ELSE {}

\* C19 (no buffered input is dropped at a frame end): when the sub-loop ends a
\* frame (the next requested size is 0) no byte is pending and the decoder has
\* reached the end of the frame; the next step is the magic number read, which
\* starts where the frame ends in the source: every magic number read starts
\* at a frame boundary.  The bytes the driver reads are all offered to the
\* decoder: the call after the magic number read or after a refill is given
\* exactly the bytes just read.
C19_NothingDropped ==
    /\ [](op = "decompress" =>
            /\ (pc = "d_magic" => srcPos \in Boundaries(srcData, 0))
            /\ (pc = "d_dispatch" => srcPos - 4 \in Boundaries(srcData, 0)))
    /\ [][/\ (pc = "f_check" /\ toRead = 0) =>
                /\ readSize = 0
                /\ dctx.stage = "end"
                /\ pc' = "d_magic" /\ srcPos' = srcPos
          /\ (pc = "f_decode" /\ log[Len(log)].e \in {"dinit", "fill"}) =>
                /\ readSize > 0
                /\ lastIn'.in = SubSeq(srcData, srcPos - readSize + 1, srcPos)
         ]_vars

\* the overwrite policy refuses the destination of the resolver run
Refused ==
    /\ res.output \notin {stdoutmark, nulmark}
    /\ res.dstExists
    /\ g_overwrite = 0
    /\ (g_displayLevel <= 1 \/ res.ch \notin {89, 121})

\* C20 (resolver error precedence): a refused overwrite ends the run with
\* code 11 even when the source cannot be opened; otherwise a source that
\* cannot be opened ends it with code 12 even when the destination cannot be
\* opened either; the destination is opened for writing before the source
\* handle is tested: a run that ends with code 12 and names a destination
\* file that can be opened has left that file empty.
C20_ResolverPrecedence ==
    res.called =>
        /\ (Refused /\ ~res.srcOk) => (pc = "exit" /\ exitCode = 11)
        /\ (~Refused /\ ~res.srcOk /\ ~res.dstOk) => (pc = "exit" /\ exitCode = 12)
        /\ (~Refused /\ ~res.srcOk) => (pc = "exit" /\ exitCode = 12)
        /\ (exitCode = 12) =>
              /\ res.foutput = (IF res.dstOk
                                THEN (IF res.output = nulmark THEN "null" ELSE "store")
                                ELSE NULL)
              /\ (res.output = "file" /\ res.dstOk) =>
                    /\ res.truncated
                    /\ (op = "compress" => archive = <<>> /\ frames = <<>>)
                    /\ (op = "decompress" => plain = <<>>)

\* neither the source nor the destination could be opened, and nothing
\* refused the destination
C20_Witness ==
    /\ res.called /\ ~Refused /\ ~res.srcOk /\ ~res.dstOk
    /\ res.output = "file" /\ res.dstExists
    /\ pc = "exit" /\ exitCode = 12

====
